---- MODULE Spec2Model ----
(***************************************************************************)
(* Interview session lifecycle of omar-sheta/interview_coach:               *)
(* server/data_manager.py (DataManager), server/services/interview_service  *)
(* and server/services/evaluation_service, with the submit endpoint of      *)
(* server/routers/_archived_interview.py.                                   *)
(*                                                                          *)
(* Python dictionaries are functions from key strings to values; a missing  *)
(* key is a key outside DOMAIN.  None is the function with empty domain     *)
(* (both are falsy in `if not session`).                                    *)
(*                                                                          *)
(* class DataManager defines get_session twice (data_manager.py:363 and     *)
(* :678).  A class body binds a name to its last definition, so every call  *)
(* of data_manager.get_session runs the practice_sessions lookup of line    *)
(* 678; the JSON-file lookup of line 363 is never executed.                 *)
(***************************************************************************)
EXTENDS FiniteSets, Integers, Sequences, TLC

\* ---------------------------------------------------------------- bounds
MaxUuids == 3          \* uuid4() values drawn in one run
MaxQuestions == 2      \* longest question list of a session
MaxTime == 1           \* last second of the wall clock
MaxTranscripts == 2    \* transcript files on disk
MaxCalls == 4          \* operations (other than clock ticks) in one run

Uuids == 1..MaxUuids
QuestionIndices == 0..(MaxQuestions - 1)
Seconds == 0..MaxTime

\* ------------------------------------------------------------- constants
SKIPPED_TEXT == "[Question was skipped by the candidate]"
AnswerTexts == {"I would profile the service first", "No idea"}
QuestionBank == <<"Q1", "Q2", "Q3", "Q4">>

None == <<>>
NoTranscriptId == <<>>
\* a transcript id that store_transcript never returned
UnknownTranscriptId == <<0, 0, 0>>

VARIABLES
    now,                \* wall clock, whole seconds (datetime.now())
    uuid_counter,       \* number of uuid4() values handed out
    sessions,           \* data/sessions/<id>.json       : id -> dict
    practice_sessions,  \* table practice_sessions       : id -> row
    transcripts,        \* data/transcripts/<tid>.json   : tid -> dict
    results,            \* table results                 : set of rows
    tasks,              \* BackgroundTasks queued by the submit endpoint
    last,               \* the call that was made last and its outcome
    submitted,          \* id -> question indices passed to submit_interview_response
    recorded,           \* id -> index -> transcript of the last add_session_response
                        \*       that returned True for that index
    calls,              \* number of operations performed so far
    procs               \* concurrent calls: each one's position and locals

vars == <<now, uuid_counter, sessions, practice_sessions, transcripts,
          results, tasks, last, submitted, recorded, calls, procs>>

\* ------------------------------------------------------- dict primitives
Truthy(d) == DOMAIN d # {}

\* dict.update / {**a, **b}
DictUpdate(d, u) ==
    [k \in (DOMAIN d) \cup (DOMAIN u) |-> IF k \in DOMAIN u THEN u[k] ELSE d[k]]

\* write <dir>/<key>.json
WriteFile(files, key, content) ==
    [k \in (DOMAIN files) \cup {key} |-> IF k = key THEN content ELSE files[k]]

\* dict.get(key, default)
DictGet(d, key, default) == IF key \in DOMAIN d THEN d[key] ELSE default

Max(a, b) == IF a >= b THEN a ELSE b

\* ------------------------------------------------------------ DataManager
\* get_session as the class binds it: SELECT * FROM practice_sessions
get_session(session_id) ==
    IF session_id \in DOMAIN practice_sessions
    THEN practice_sessions[session_id]
    ELSE None

get_transcript(files, transcript_id) ==
    IF transcript_id \in DOMAIN files THEN files[transcript_id] ELSE None

\* the id store_transcript builds: f"{session_id}_{question_index}_{int(timestamp)}"
transcript_id_of(session_id, question_index, t) == <<session_id, question_index, t>>

store_transcript_files(files, session_id, question_index, transcript_data) ==
    LET tid == transcript_id_of(session_id, question_index, now)
    IN  WriteFile(files, tid,
            DictUpdate(transcript_data,
                [transcript_id |-> tid, session_id |-> session_id,
                 question_index |-> question_index, created_at |-> now]))

\* update_session: returns <<success, session files afterwards>>
update_session(files, session_id, updates) ==
    LET session == get_session(session_id)
    IN  IF ~Truthy(session)
        THEN <<FALSE, files>>
        ELSE <<TRUE,
               WriteFile(files, session_id,
                   DictUpdate(DictUpdate(session, updates), [updated_at |-> now]))>>

\* position of the first response with this question_index, 0 when there is none
existing_index(responses, question_index) ==
    LET hits == {i \in 1..Len(responses) : responses[i].question_index = question_index}
    IN  IF hits = {} THEN 0 ELSE CHOOSE i \in hits : \A j \in hits : i <= j

\* add_session_response: returns <<success, session files afterwards>>
add_session_response(files, session_id, question_index, transcript_id) ==
    LET session == get_session(session_id)
    IN  IF ~Truthy(session)
        THEN <<FALSE, files>>
        ELSE
          LET responses == DictGet(session, "responses", <<>>)
              pos == existing_index(responses, question_index)
              response_data == [question_index |-> question_index,
                                transcript_id |-> transcript_id,
                                submitted_at |-> now]
              new_responses == IF pos # 0
                               THEN [responses EXCEPT ![pos] = response_data]
                               ELSE Append(responses, response_data)
              changed == DictUpdate(session, [responses |-> new_responses])
          IN  update_session(files, session_id, changed)

\* ------------------------------------------------------------------ Init
\* the calls that may run at the same time (request handlers, background tasks)
Procs == {1, 2}

\* a call that has not started: no position in any function, no locals
IdleProc ==
    [pc |-> "idle", op |-> "none", session_id |-> 0, question_index |-> 0,
     transcript_id |-> NoTranscriptId, session |-> None, outcome |-> "none"]

Init ==
    /\ now = 0
    /\ uuid_counter = 0
    /\ sessions = <<>>
    /\ practice_sessions = <<>>
    /\ transcripts = <<>>
    /\ results = {}
    /\ tasks = <<>>
    /\ last = [op |-> "init", session_id |-> 0, question_index |-> 0,
               transcript_id |-> NoTranscriptId, outcome |-> "ok"]
    /\ submitted = [u \in Uuids |-> {}]
    /\ recorded = [u \in Uuids |-> [i \in QuestionIndices |-> NoTranscriptId]]
    /\ calls = 0
    /\ procs = [p \in Procs |-> IdleProc]

Call(op, session_id, question_index, transcript_id, outcome) ==
    [op |-> op, session_id |-> session_id, question_index |-> question_index,
     transcript_id |-> transcript_id, outcome |-> outcome]

KnownIds == (DOMAIN sessions) \cup (DOMAIN practice_sessions)

\* ---------------------------------------------------------------- clock
Tick ==
    /\ now < MaxTime
    /\ now' = now + 1
    /\ UNCHANGED <<procs, uuid_counter, sessions, practice_sessions, transcripts,
                   results, tasks, last, submitted, recorded, calls>>

\* ---------------------------------------------------------- question source
\* None for an optional text, as the session files above already write it
Null == "null"

TextTruthy(text) == text \notin {Null, ""}

Min(a, b) == IF a <= b THEN a ELSE b

\* str.strip() on the texts of this model
Strip(text) ==
    CASE text = " Q1 " -> "Q1"
      [] text = " Q3 " -> "Q3"
      [] text = "   " -> ""
      [] OTHER -> text

\* an entry of request.questions: a string, or a dict holding the text
StrItem(text) == [kind |-> "str", value |-> text]
DictItem(d) == [kind |-> "dict", value |-> d]

\* the cleaning loop keeping the text as it was sent, without strip()
cleaned_text_unstripped(item) ==
    IF item.kind = "str"
    THEN IF Strip(item.value) # "" THEN item.value ELSE ""
    ELSE LET d == item.value
             q_text == IF TextTruthy(DictGet(d, "question", Null)) THEN d["question"]
                       ELSE IF TextTruthy(DictGet(d, "text", Null)) THEN d["text"]
                       ELSE DictGet(d, "content", Null)
         IN  IF TextTruthy(q_text) /\ Strip(q_text) # "" THEN q_text ELSE ""

\* one pass of the cleaning loop: the stripped text, "" when the entry is dropped
cleaned_text(item) ==
    IF item.kind = "str"
    THEN Strip(item.value)
    ELSE LET d == item.value
             q_text == IF TextTruthy(DictGet(d, "question", Null)) THEN d["question"]
                       ELSE IF TextTruthy(DictGet(d, "text", Null)) THEN d["text"]
                       ELSE DictGet(d, "content", Null)
         IN  IF TextTruthy(q_text) THEN Strip(q_text) ELSE ""

clean_questions(items) ==
    SelectSeq([i \in 1..Len(items) |-> cleaned_text(items[i])],
              LAMBDA text : text # "")

\* GenerateRequest.desired_question_count
desired_question_count(num_questions) ==
    IF num_questions # 0 /\ num_questions > 0 THEN Min(num_questions, 20) ELSE 5

\* the prompt start_interview_session writes for a role
question_prompt(job_role) ==
    IF TextTruthy(job_role)
    THEN "Generate professional interview questions for a Backend Engineer position"
    ELSE "Generate professional interview questions for a software developer position"

\* extract_keywords on the texts of this model (lowercased tokens of three or
\* more characters that are not stop words, first occurrences, at most eight)
extract_keywords(text) ==
    CASE text = "Python services on Kubernetes" ->
             <<"python", "services", "kubernetes">>
      [] text = "Backend Engineer" -> <<"backend", "engineer">>
      [] text = "Generate professional interview questions for a Backend Engineer position" ->
             <<"generate", "professional", "interview", "questions",
               "backend", "engineer", "return", "only">>
      [] text = "Generate professional interview questions for a software developer position" ->
             <<"generate", "professional", "interview", "questions",
               "developer", "return", "only", "one">>
      [] OTHER -> <<>>

NumKeywordTemplates == 7     \* len(TEMPLATES_KEYWORD)
NumGeneralTemplates == 5     \* len(TEMPLATES_GENERAL)

\* generate_questions_locally stopping after the templates, without the
\* "fill remaining" loop
generate_questions_locally_templates_only(job_description, num_questions, job_role) ==
    LET n == Min(num_questions, NumKeywordTemplates + NumGeneralTemplates)
    IN  [i \in 1..n |-> [question |-> <<"template", i>>, index |-> i - 1,
                         type |-> IF i <= NumKeywordTemplates THEN "technical"
                                  ELSE "behavioral"]]

generate_questions_locally(job_description, num_questions, job_role) ==
    LET role_phrase == IF TextTruthy(job_role) THEN job_role ELSE "this role"
        from_description == IF TextTruthy(job_description)
                            THEN extract_keywords(job_description) ELSE <<>>
        from_role == IF from_description = <<>> /\ TextTruthy(job_role)
                     THEN extract_keywords(job_role) ELSE from_description
        keywords == IF from_role = <<>>
                    THEN <<"problem solving", "stakeholder communication",
                           "continuous improvement">>
                    ELSE from_role
        \* the question appended when len(questions) = n
        question(n) ==
            IF n < NumKeywordTemplates
            THEN [question |-> <<"keyword template", n + 1,
                                 keywords[(n % Len(keywords)) + 1], role_phrase>>,
                  index |-> n, type |-> "technical"]
            ELSE IF n < NumKeywordTemplates + NumGeneralTemplates
            THEN [question |-> <<"general template", n + 1 - NumKeywordTemplates,
                                 role_phrase>>,
                  index |-> n, type |-> "behavioral"]
            ELSE [question |-> <<"best practices",
                                 keywords[(n % Len(keywords)) + 1]>>,
                  index |-> n, type |-> "technical"]
    IN  [i \in 1..Max(num_questions, 0) |-> question(i - 1)]

MaxProviderItems == 3   \* most entries in one answer of the provider

\* an entry of the JSON list the provider answers with: a dict without "text",
\* or a dict with "text" and this "type"
ProviderItems == {"no text", "Behavioral", "coding"}

\* item.get("type", "technical").lower(), "technical" unless a known type
question_type(item) == IF item = "Behavioral" THEN "behavioral" ELSE "technical"

\* what the generative provider does on one call: not reachable (probe or
\* version request fails), the chat request raises, a status other than 200,
\* or an answer: a JSON list whose entries do or do not carry a "text", JSON
\* that is not a list, or plain text with a number of question lines
QuestionProviderOutcomes ==
    {[kind |-> "unavailable"], [kind |-> "exception"],
     [kind |-> "status", code |-> 500],
     [kind |-> "ok", format |-> "not a list"]}
    \cup {[kind |-> "ok", format |-> "json", items |-> items] :
             items \in UNION {[1..m -> ProviderItems] : m \in 0..MaxProviderItems}}
    \cup {[kind |-> "ok", format |-> "text", lines |-> j] :
             j \in 0..MaxProviderItems}

\* questions_with_types as the answer is parsed, at most num_questions of them
questions_with_types(provider, num_questions) ==
    IF provider.format = "json"
    THEN LET taken == SubSeq(provider.items, 1,
                             Min(Len(provider.items), num_questions))
             positions == SelectSeq([i \in 1..Len(taken) |-> i],
                                    LAMBDA i : taken[i] # "no text")
         IN  [k \in 1..Len(positions) |->
                 [question |-> <<"ai", positions[k]>>,
                  index |-> positions[k] - 1,
                  type |-> question_type(taken[positions[k]])]]
    ELSE IF provider.format = "text"
    THEN [k \in 1..Min(provider.lines, num_questions) |->
             [question |-> <<"ai", k>>, index |-> k - 1, type |-> "technical"]]
    ELSE <<>>

Payload(questions, source, used_fallback) ==
    [outcome |-> "ok", questions |-> questions, source |-> source,
     used_fallback |-> used_fallback]

\* build_questions_payload on a GenerateRequest, with the provider's outcome
build_questions_payload(request, provider) ==
    LET job_description ==
            IF TextTruthy(request.job_description) THEN request.job_description
            ELSE IF request.has_prompt THEN request.prompt
            ELSE Null
        num_questions == desired_question_count(request.num_questions)
        job_role == request.job_role
        parsed == questions_with_types(provider, num_questions)
    IN  IF num_questions <= 0
        THEN [outcome |-> "ValueError: Number of questions must be greater than zero"]
        ELSE IF ~TextTruthy(job_description) /\ ~TextTruthy(job_role)
                /\ ~request.has_prompt
        THEN [outcome |-> "ValueError: Either messages/prompt or job_description/job_role must be provided"]
        ELSE IF provider.kind = "ok" /\ parsed # <<>>
        THEN Payload(parsed, "ollama", FALSE)
        ELSE IF job_description = Null /\ job_role = Null
        THEN [outcome |-> "ValueError: Job description or job role is required to generate questions"]
        ELSE Payload(generate_questions_locally(job_description, num_questions,
                                                job_role),
                     "fallback", TRUE)

\* start_interview_session: the outcome and the session_data it hands to
\* create_session
start_interview_session(request, provider) ==
    LET supplied == request.questions.supplied /\ request.questions.items # <<>>
        cleaned_questions == clean_questions(request.questions.items)
        llm_request == [has_prompt |-> TRUE,
                        prompt |-> question_prompt(request.job_role),
                        job_role |-> request.job_role,
                        job_description |-> request.job_description,
                        num_questions |-> request.num_questions]
        questions_response == build_questions_payload(llm_request, provider)
        session_data(questions, question_source, used_fallback) ==
            [candidate_name |-> request.candidate_name,
             job_role |-> request.job_role,
             job_description |-> request.job_description,
             questions |-> questions,
             current_question |-> 0, status |-> "active",
             question_source |-> question_source,
             used_fallback |-> used_fallback,
             responses |-> <<>>]
    IN  IF supplied
        THEN IF cleaned_questions = <<>>
             THEN [outcome |-> "ValueError: Provided questions were empty after cleaning"]
             ELSE [outcome |-> "ok",
                   session_data |-> session_data(cleaned_questions, "client", FALSE)]
        ELSE IF questions_response.outcome # "ok"
        THEN [outcome |-> questions_response.outcome]
        ELSE IF questions_response.questions = <<>>
        THEN [outcome |-> "ValueError: No interview questions were generated"]
        ELSE [outcome |-> "ok",
              session_data |-> session_data(questions_response.questions,
                                            questions_response.source,
                                            questions_response.used_fallback)]

\* DataManager.create_session: the file written for a new session id
create_session(files, session_id, session_data) ==
    WriteFile(files, session_id,
        DictUpdate(session_data,
            [session_id |-> session_id, created_at |-> now, updated_at |-> now]))

\* ------------------------------------------------- start_interview_session
\* the handler on one request: cleaning or generation, then create_session
StartWith(request, provider) ==
    LET r == start_interview_session(request, provider)
        session_id == uuid_counter + 1
        call(id) == DictUpdate(
                        Call("start_interview_session", id, 0, NoTranscriptId,
                             r.outcome),
                        [request |-> request, provider |-> provider])
    IN  /\ calls < MaxCalls
        /\ calls' = calls + 1
        /\ IF r.outcome = "ok"
           THEN /\ uuid_counter < MaxUuids
                /\ uuid_counter' = session_id
                /\ sessions' = create_session(sessions, session_id, r.session_data)
                /\ last' = call(session_id)
           ELSE /\ UNCHANGED <<uuid_counter, sessions>>
                /\ last' = call(0)
        /\ UNCHANGED <<procs, now, practice_sessions, transcripts, results, tasks,
                       submitted, recorded>>

\* a request carrying a literal list of k clean questions
ClientRequest(k) ==
    [candidate_name |-> "Candidate", job_role |-> "Tester",
     job_description |-> Null, num_questions |-> 3,
     questions |-> [supplied |-> TRUE,
                    items |-> [i \in 1..k |-> StrItem(QuestionBank[i])]]]

ClientRequests == {ClientRequest(k) : k \in 1..MaxQuestions}

StartInterviewSession ==
    \E request \in ClientRequests :
        StartWith(request, [kind |-> "unavailable"])

\* --------------------------------------------------- create_practice_session
CreatePracticeSession ==
    /\ uuid_counter < MaxUuids
    /\ calls < MaxCalls
    /\ calls' = calls + 1
    /\ LET session_id == uuid_counter + 1
           row == [session_id |-> session_id, user_id |-> "u", module_id |-> "m",
                   mode |-> "coaching", code_snapshot |-> "null",
                   diagram_path |-> "null", started_at |-> "null",
                   time_limit_minutes |-> "null", created_at |-> now]
       IN  /\ uuid_counter' = session_id
           /\ practice_sessions' = WriteFile(practice_sessions, session_id, row)
           /\ last' = Call("create_practice_session", session_id, 0,
                           NoTranscriptId, "ok")
    /\ UNCHANGED <<procs, now, sessions, transcripts, results, tasks, submitted, recorded>>

\* ------------------------------------------------------- store_transcript
StoreTranscript ==
    \E session_id \in KnownIds, question_index \in QuestionIndices,
       text \in AnswerTexts :
        LET tid == transcript_id_of(session_id, question_index, now)
            files == store_transcript_files(transcripts, session_id, question_index,
                         [transcript |-> text, audio_filename |-> "a.wav"])
        IN  /\ Cardinality(DOMAIN files) <= MaxTranscripts
            /\ calls < MaxCalls
            /\ calls' = calls + 1
            /\ transcripts' = files
            /\ last' = Call("store_transcript", session_id, question_index, tid, "ok")
            /\ UNCHANGED <<procs, now, uuid_counter, sessions, practice_sessions,
                           results, tasks, submitted, recorded>>

\* --------------------------------------- DataManager.add_session_response
\* called directly, as verify_answers.py does
AddSessionResponse ==
    \E session_id \in KnownIds, question_index \in QuestionIndices,
       transcript_id \in DOMAIN transcripts :
        LET r == add_session_response(sessions, session_id, question_index,
                                      transcript_id)
        IN  /\ calls < MaxCalls
            /\ calls' = calls + 1
            /\ sessions' = r[2]
            /\ last' = Call("add_session_response", session_id, question_index,
                            transcript_id, IF r[1] THEN "True" ELSE "False")
            /\ recorded' = IF r[1]
                           THEN [recorded EXCEPT ![session_id][question_index] =
                                     transcript_id]
                           ELSE recorded
            /\ UNCHANGED <<procs, now, uuid_counter, practice_sessions, transcripts,
                           results, tasks, submitted>>

\* ------------------------------------------------ DataManager.update_session
\* the fields start_candidate_interview merges into the session it started
metadata ==
    [candidate_id |-> "cand-1", candidate_username |-> "candidate",
     interview_id |-> "int-1", interview_title |-> "Backend Engineer",
     interview_description |-> "description", interview_config |-> "config"]

\* called directly with a session id, as start_candidate_interview does
UpdateSession ==
    \E session_id \in Uuids :
        LET r == update_session(sessions, session_id, metadata)
        IN  /\ calls < MaxCalls
            /\ calls' = calls + 1
            /\ sessions' = r[2]
            /\ last' = Call("update_session", session_id, 0, NoTranscriptId,
                            IF r[1] THEN "True" ELSE "False")
            /\ UNCHANGED <<procs, now, uuid_counter, practice_sessions, transcripts,
                           results, tasks, submitted, recorded>>

\* ------------------------------------------------ submit_interview_response
\* the result: outcome, the stores afterwards, and the returned fields
SubmitResult(outcome, session_files, transcript_files, transcript_id, session_status, next_question_index) ==
    [outcome |-> outcome, sessions |-> session_files,
     transcripts |-> transcript_files, transcript_id |-> transcript_id,
     session_status |-> session_status,
     next_question_index |-> next_question_index]

\* "Verify transcript exists": the lookup came back empty
transcript_not_found_never(transcript) == FALSE

transcript_not_found(transcript) == ~Truthy(transcript)

submit_interview_response(session_id, question_index, given_transcript_id) ==
    LET session0 == get_session(session_id)
        skip == given_transcript_id = NoTranscriptId
        transcript_id == IF skip
                         THEN transcript_id_of(session_id, question_index, now)
                         ELSE given_transcript_id
        files_t == IF skip
                   THEN store_transcript_files(transcripts, session_id,
                            question_index,
                            [transcript |-> SKIPPED_TEXT,
                             audio_filename |-> "skipped", submitted_at |-> now])
                   ELSE transcripts
        transcript == get_transcript(files_t, transcript_id)
        added == add_session_response(sessions, session_id, question_index,
                                      transcript_id)
        session == get_session(session_id)
        current_question == question_index + 1
        completes == current_question >= Len(session["questions"])
        updates == IF completes
                   THEN [current_question |-> current_question,
                         status |-> "completed"]
                   ELSE [current_question |-> current_question]
        saved == update_session(added[2], session_id, updates)
    IN  IF ~Truthy(session0)
        THEN SubmitResult("ValueError: session not found", sessions, transcripts,
                          NoTranscriptId, "none", -1)
        ELSE IF transcript_not_found(transcript)
        THEN SubmitResult("ValueError: transcript not found", sessions, files_t,
                          transcript_id, "none", -1)
        ELSE IF ~added[1]
        THEN SubmitResult("ValueError: failed to add response", added[2], files_t,
                          transcript_id, "none", -1)
        ELSE IF "questions" \notin DOMAIN session
        THEN SubmitResult("KeyError: questions", added[2], files_t,
                          transcript_id, "none", -1)
        ELSE SubmitResult("ok", saved[2], files_t, transcript_id,
                          DictGet(updates, "status",
                                  DictGet(session, "status", "active")),
                          current_question)

\* POST /interview/submit: the service call, then the evaluation is queued
\* as a background task when the returned session_status is completed
SubmitResponse ==
    \E session_id \in KnownIds, question_index \in QuestionIndices,
       transcript_id \in (DOMAIN transcripts) \cup {NoTranscriptId, UnknownTranscriptId} :
        LET r == submit_interview_response(session_id, question_index,
                                           transcript_id)
        IN  /\ calls < MaxCalls
            /\ Cardinality(DOMAIN r.transcripts) <= MaxTranscripts
            /\ calls' = calls + 1
            /\ sessions' = r.sessions
            /\ transcripts' = r.transcripts
            /\ tasks' = IF r.outcome = "ok" /\ r.session_status = "completed"
                        THEN Append(tasks, session_id)
                        ELSE tasks
            /\ submitted' = [submitted EXCEPT ![session_id] = @ \cup {question_index}]
            /\ recorded' = IF r.outcome = "ok"
                           THEN [recorded EXCEPT ![session_id][question_index] =
                                     r.transcript_id]
                           ELSE recorded
            /\ last' = DictUpdate(
                           Call("submit_interview_response", session_id,
                                question_index, r.transcript_id, r.outcome),
                           [given_transcript_id |-> transcript_id])
            /\ UNCHANGED <<procs, now, uuid_counter, practice_sessions, results>>

\* ------------------------------------------------------------- evaluation
\* scores are kept in tenths: 75 is the score 7.5
NO_RESPONSE_TEXT == "[No response provided]"

\* len(transcript.split()) for the texts of this model
WordCount(text) ==
    CASE text = SKIPPED_TEXT -> 7
      [] text = NO_RESPONSE_TEXT -> 3
      [] text = "I would profile the service first" -> 6
      [] text = "No idea" -> 2
      [] text = "SKIPPED" -> 1
      [] OTHER -> 0

Evaluation(score, feedback) ==
    [score |-> score, feedback |-> feedback,
     strengths |-> "strengths", areas_for_improvement |-> "improvements"]

_fallback_scoring(transcript) ==
    LET word_count == WordCount(transcript)
    IN  IF word_count < 5 THEN Evaluation(20, "very brief")
        ELSE IF word_count < 20 THEN Evaluation(40, "brief")
        ELSE IF word_count < 50 THEN Evaluation(60, "adequate")
        ELSE IF word_count < 100 THEN Evaluation(80, "comprehensive")
        ELSE Evaluation(90, "very detailed")

\* what the scoring provider does on one call
ProviderOutcomes ==
    {[kind |-> "exception"], [kind |-> "status", code |-> 500],
     [kind |-> "ok", score_line |-> "missing"],
     [kind |-> "ok", score_line |-> "unparsable"],
     [kind |-> "ok", score_line |-> "number", value |-> 70],
     [kind |-> "ok", score_line |-> "number", value |-> 0],
     [kind |-> "ok", score_line |-> "number", value |-> 150]}

\* without "score = max(1, min(10, score))"
evaluate_response_with_ai_unclamped(question, transcript0, provider) ==
    LET transcript == IF transcript0 = "" THEN NO_RESPONSE_TEXT
                      ELSE IF transcript0 = "SKIPPED" THEN SKIPPED_TEXT
                      ELSE transcript0
    IN  IF provider.kind = "exception" THEN _fallback_scoring(transcript)
        ELSE IF provider.kind = "status" THEN _fallback_scoring(transcript)
        ELSE IF provider.score_line = "number"
        THEN Evaluation(provider.value, "ai feedback")
        ELSE Evaluation(50, "ai feedback")

evaluate_response_with_ai(question, transcript0, provider) ==
    LET transcript == IF transcript0 = "" THEN NO_RESPONSE_TEXT
                      ELSE IF transcript0 = "SKIPPED" THEN SKIPPED_TEXT
                      ELSE transcript0
    IN  IF provider.kind = "exception" THEN _fallback_scoring(transcript)
        ELSE IF provider.kind = "status" THEN _fallback_scoring(transcript)
        ELSE IF provider.score_line = "number"
        THEN Evaluation(Max(10, IF provider.value <= 100 THEN provider.value ELSE 100),
                        "ai feedback")
        ELSE Evaluation(50, "ai feedback")

\* the ascending sequence of a finite set of integers
RECURSIVE SortedSeq(_)
SortedSeq(S) ==
    IF S = {} THEN <<>>
    ELSE LET m == CHOOSE x \in S : \A y \in S : x <= y
         IN  <<m>> \o SortedSeq(S \ {m})

\* "sort by question_index, then keep the last occurrence for each index"
dedupe_by_question_index(items) ==
    LET keys == {items[i].question_index : i \in 1..Len(items)}
        order == SortedSeq(keys)
        lastpos(q) == CHOOSE i \in 1..Len(items) :
                          /\ items[i].question_index = q
                          /\ \A j \in 1..Len(items) :
                                 items[j].question_index = q => j <= i
    IN  [n \in 1..Len(order) |-> items[lastpos(order[n])]]

get_session_responses_with_transcripts(session_id) ==
    LET session == get_session(session_id)
    IN  IF ~Truthy(session) \/ "responses" \notin DOMAIN session
        THEN <<>>
        ELSE
          LET responses == SelectSeq(session["responses"],
                                     LAMBDA r : r.transcript_id # NoTranscriptId)
              combined(r) ==
                  LET transcript == get_transcript(transcripts, r.transcript_id)
                  IN  IF Truthy(transcript)
                      THEN DictUpdate(r, transcript)
                      ELSE DictUpdate(r, [transcript |-> "[Transcript not found]",
                                          transcript_id |-> r.transcript_id])
          IN  dedupe_by_question_index(
                  [i \in 1..Len(responses) |-> combined(responses[i])])

\* round(total / n, 1) for totals in tenths, halves to even
RoundDiv(total, n) ==
    LET q == total \div n
        r == total % n
    IN  IF 2 * r < n THEN q
        ELSE IF 2 * r > n THEN q + 1
        ELSE IF q % 2 = 0 THEN q ELSE q + 1

\* upsert_result with the uuid that an insert would draw; returns the rows
upsert_result_always_insert(rows, session_id, record, fresh_id) ==
    rows \cup
        {[id |-> DictGet(record, "id", fresh_id),
          session_id |-> session_id,
          interview_id |-> DictGet(record, "interview_id", "null"),
          candidate_id |-> DictGet(record, "candidate_id", "null"),
          candidate_username |-> DictGet(record, "candidate_username", "null"),
          interview_title |-> DictGet(record, "interview_title", "null"),
          timestamp |-> DictGet(record, "timestamp", "null"),
          answers |-> DictGet(record, "answers", <<>>),
          feedback |-> DictGet(record, "feedback", <<>>),
          scores |-> DictGet(record, "scores", <<>>),
          summary |-> DictGet(record, "summary", "null"),
          created_at |-> now, updated_at |-> now,
          status |-> DictGet(record, "status", "pending")]}

upsert_result(rows, session_id, record, fresh_id) ==
    IF \E row \in rows : row.session_id = session_id
    THEN {IF row.session_id = session_id
          THEN [row EXCEPT
                  !.interview_id = DictGet(record, "interview_id", "null"),
                  !.candidate_id = DictGet(record, "candidate_id", "null"),
                  !.candidate_username = DictGet(record, "candidate_username", "null"),
                  !.interview_title = DictGet(record, "interview_title", "null"),
                  !.timestamp = DictGet(record, "timestamp", "null"),
                  !.answers = DictGet(record, "answers", <<>>),
                  !.feedback = DictGet(record, "feedback", <<>>),
                  !.scores = DictGet(record, "scores", <<>>),
                  !.summary = DictGet(record, "summary", "null"),
                  !.updated_at = now,
                  !.status = DictGet(record, "status", "pending")]
          ELSE row : row \in rows}
    ELSE upsert_result_always_insert(rows, session_id, record, fresh_id)

\* does upsert_result draw a uuid for this record
upsert_draws_uuid(rows, session_id, record) ==
    /\ ~ \E row \in rows : row.session_id = session_id
    /\ "id" \notin DOMAIN record

\* the record persist_completed_session builds
completed_record(session_id, session, scored_responses, average_score) ==
    LET sorted_responses == dedupe_by_question_index(scored_responses)
        answer(r) == [question_index |-> r.question_index,
                      question |-> DictGet(r, "question", "null"),
                      transcript |-> DictGet(r, "transcript", "null"),
                      transcript_id |-> DictGet(r, "transcript_id", "null")]
        fb(r) == [question_index |-> r.question_index,
                  feedback |-> DictGet(r, "feedback", "null"),
                  strengths |-> DictGet(r, "strengths", "null"),
                  areas_for_improvement |-> DictGet(r, "areas_for_improvement", "null"),
                  score |-> DictGet(r, "score", "null")]
        detail(r) == [question_index |-> r.question_index,
                      score |-> DictGet(r, "score", "null")]
    IN  [session_id |-> session_id,
         candidate_id |-> DictGet(session, "candidate_id", "null"),
         candidate_username |-> DictGet(session, "candidate_username", "null"),
         interview_id |-> DictGet(session, "interview_id", "null"),
         interview_title |-> DictGet(session, "interview_title", "null"),
         timestamp |-> now,
         answers |-> [i \in 1..Len(sorted_responses) |-> answer(sorted_responses[i])],
         feedback |-> [i \in 1..Len(sorted_responses) |-> fb(sorted_responses[i])],
         scores |-> [average |-> average_score,
                     details |-> [i \in 1..Len(scored_responses) |->
                                      detail(scored_responses[i])]],
         summary |-> <<"Interview completed with average score of", average_score>>,
         status |-> "completed"]

persist_completed_session(rows, session_id, session, scored_responses, average_score, fresh_id) ==
    upsert_result(rows, session_id,
        completed_record(session_id, session, scored_responses, average_score),
        fresh_id)

\* evaluate_interview_session with the provider's outcome for each response;
\* returns the outcome, the rows afterwards and whether a uuid was drawn.
\* The average handed to persist_completed_session is kept rounded to a tenth.
evaluate_interview_session(session_id, providers, fresh_id) ==
    LET session == get_session(session_id)
        responses == get_session_responses_with_transcripts(session_id)
        question_of(r) ==
            IF r.question_index < Len(session["questions"])
            THEN session["questions"][r.question_index + 1]
            ELSE "Unknown question"
        evaluation(i) ==
            evaluate_response_with_ai(question_of(responses[i]),
                DictGet(responses[i], "transcript", "[No transcript found]"),
                providers[i])
        scored_responses ==
            [i \in 1..Len(responses) |->
                DictUpdate(responses[i],
                    [score |-> evaluation(i).score,
                     feedback |-> evaluation(i).feedback,
                     strengths |-> evaluation(i).strengths,
                     areas_for_improvement |-> evaluation(i).areas_for_improvement,
                     question |-> question_of(responses[i])])]
        RECURSIVE total(_)
        total(i) == IF i = 0 THEN 0 ELSE evaluation(i).score + total(i - 1)
        average_score == IF Len(responses) > 0
                         THEN RoundDiv(total(Len(responses)), Len(responses))
                         ELSE 0
        record == completed_record(session_id, session, scored_responses,
                                   average_score)
    IN  IF ~Truthy(session)
        THEN [outcome |-> "ValueError: session not found", results |-> results,
              drew_uuid |-> FALSE]
        ELSE IF "status" \notin DOMAIN session
        THEN [outcome |-> "KeyError: status", results |-> results,
              drew_uuid |-> FALSE]
        ELSE IF session["status"] # "completed"
        THEN [outcome |-> "ValueError: not yet completed", results |-> results,
              drew_uuid |-> FALSE]
        ELSE [outcome |-> "ok",
              results |-> persist_completed_session(results, session_id, session,
                              scored_responses, average_score, fresh_id),
              drew_uuid |-> upsert_draws_uuid(results, session_id, record),
              record |-> record]

\* one provider outcome for each response that is scored
ProviderRuns(session_id) ==
    [1..Len(get_session_responses_with_transcripts(session_id)) -> ProviderOutcomes]

\* the evaluator writing "evaluated" into the session file it has scored
EvaluateInterviewSession_marking_session ==
    \E session_id \in KnownIds : \E providers \in ProviderRuns(session_id) :
        LET r == evaluate_interview_session(session_id, providers, uuid_counter + 1)
        IN  /\ calls < MaxCalls
            /\ r.drew_uuid => uuid_counter < MaxUuids
            /\ calls' = calls + 1
            /\ results' = r.results
            /\ sessions' = IF session_id \in DOMAIN sessions
                           THEN WriteFile(sessions, session_id,
                                    DictUpdate(sessions[session_id],
                                               [status |-> "evaluated"]))
                           ELSE sessions
            /\ uuid_counter' = IF r.drew_uuid THEN uuid_counter + 1 ELSE uuid_counter
            /\ last' = Call("evaluate_interview_session", session_id, 0,
                            NoTranscriptId, r.outcome)
            /\ UNCHANGED <<procs, now, practice_sessions, transcripts, tasks,
                           submitted, recorded>>

\* the service function called on its own (GET /interview/{id}/results, scripts)
EvaluateInterviewSession ==
    \E session_id \in KnownIds : \E providers \in ProviderRuns(session_id) :
        LET r == evaluate_interview_session(session_id, providers, uuid_counter + 1)
        IN  /\ calls < MaxCalls
            /\ r.drew_uuid => uuid_counter < MaxUuids
            /\ calls' = calls + 1
            /\ results' = r.results
            /\ uuid_counter' = IF r.drew_uuid THEN uuid_counter + 1 ELSE uuid_counter
            /\ last' = Call("evaluate_interview_session", session_id, 0,
                            NoTranscriptId, r.outcome)
            /\ UNCHANGED <<procs, now, sessions, practice_sessions, transcripts, tasks,
                           submitted, recorded>>

\* scored responses a caller hands to persist_completed_session
ScoreInputs == {40, 80}

ScoredResponse(question_index, score) ==
    [question_index |-> question_index, transcript_id |-> NoTranscriptId,
     submitted_at |-> now, transcript |-> "I would profile the service first",
     score |-> score, feedback |-> "feedback", strengths |-> "strengths",
     areas_for_improvement |-> "improvements",
     question |-> QuestionBank[question_index + 1]]

\* persist_completed_session called with a session record and its scored responses
PersistCompletedSession ==
    \E session_id \in {id \in DOMAIN sessions : "questions" \in DOMAIN sessions[id]},
       score \in ScoreInputs :
        LET session == sessions[session_id]
            scored_responses ==
                [i \in 1..Len(session["questions"]) |-> ScoredResponse(i - 1, score)]
            record == completed_record(session_id, session, scored_responses, score)
            drew_uuid == upsert_draws_uuid(results, session_id, record)
        IN  /\ calls < MaxCalls
            /\ drew_uuid => uuid_counter < MaxUuids
            /\ calls' = calls + 1
            /\ results' = persist_completed_session(results, session_id, session,
                              scored_responses, score, uuid_counter + 1)
            /\ uuid_counter' = IF drew_uuid THEN uuid_counter + 1 ELSE uuid_counter
            /\ last' = Call("persist_completed_session", session_id, 0,
                            NoTranscriptId, "ok")
            /\ UNCHANGED <<procs, now, sessions, practice_sessions, transcripts, tasks,
                           submitted, recorded>>

\* save_results: every loaded row goes through upsert_result
RECURSIVE save_results(_, _)
save_results(rows, todo) ==
    IF todo = {} THEN rows
    ELSE LET r == CHOOSE x \in todo : TRUE
         IN  save_results(upsert_result(rows, r.session_id, r, 0), todo \ {r})

\* PUT /api/admin/results/{session_id}: set the review status, save all rows
UpdateAdminResult ==
    \E session_id \in {row.session_id : row \in results},
       status \in {"pending", "rejected", "accepted"} :
        LET edited == {IF row.session_id = session_id
                       THEN [row EXCEPT !.status = status]
                       ELSE row : row \in results}
        IN  /\ calls < MaxCalls
            /\ calls' = calls + 1
            /\ results' = save_results(results, edited)
            /\ last' = Call("update_admin_result", session_id, 0,
                            NoTranscriptId, status)
            /\ UNCHANGED <<procs, now, uuid_counter, sessions, practice_sessions,
                           transcripts, tasks, submitted, recorded>>

\* ---------------------------------------------------------- delete_result
\* session ids that are no uuid4 value: the ones sample results are written for
SampleSessionIds == {-1}

RemoveFile(files, key) == [k \in (DOMAIN files) \ {key} |-> files[k]]

\* _cleanup_session_files: unlink every transcripts/<session_id>_*.json
_cleanup_session_files(files, session_id) ==
    [tid \in {t \in DOMAIN files : t[1] # session_id} |-> files[tid]]

\* delete_session: returns <<deleted, session files, transcript files>>
delete_session(session_files, transcript_files, session_id) ==
    IF session_id \in DOMAIN session_files
    THEN <<TRUE, RemoveFile(session_files, session_id),
           _cleanup_session_files(transcript_files, session_id)>>
    ELSE <<FALSE, session_files, transcript_files>>

\* delete_result: returns <<deleted, rows, session files, transcript files>>
delete_result(rows, session_files, transcript_files, session_id) ==
    LET deleted == \E row \in rows : row.session_id = session_id
        kept == {row \in rows : row.session_id # session_id}
        d == delete_session(session_files, transcript_files, session_id)
    IN  IF deleted
        THEN <<TRUE, kept, d[2], d[3]>>
        ELSE <<FALSE, kept, session_files, transcript_files>>

\* DELETE /api/admin/results/{session_id}
DeleteResult ==
    \E session_id \in Uuids \cup SampleSessionIds :
        LET r == delete_result(results, sessions, transcripts, session_id)
        IN  /\ calls < MaxCalls
            /\ calls' = calls + 1
            /\ results' = r[2]
            /\ sessions' = r[3]
            /\ transcripts' = r[4]
            /\ last' = Call("delete_result", session_id, 0, NoTranscriptId,
                            IF r[1] THEN "True" ELSE "False")
            /\ UNCHANGED <<procs, now, uuid_counter, practice_sessions, tasks,
                           submitted, recorded>>

\* make_sample_result: a Result written for a session id of the script's own
UpsertSampleResult ==
    \E session_id \in SampleSessionIds :
        LET record == [id |-> uuid_counter + 1, session_id |-> session_id,
                       interview_id |-> "int-1", candidate_id |-> "cand-1",
                       candidate_username |-> "candidate",
                       interview_title |-> "Backend Engineer",
                       timestamp |-> now, answers |-> <<>>, feedback |-> <<>>,
                       scores |-> [average |-> 65, details |-> <<>>],
                       summary |-> "Sample interview completed",
                       status |-> "pending"]
        IN  /\ calls < MaxCalls
            /\ uuid_counter < MaxUuids
            /\ calls' = calls + 1
            /\ uuid_counter' = uuid_counter + 1
            /\ results' = upsert_result(results, session_id, record, uuid_counter + 1)
            /\ last' = Call("make_sample_result", session_id, 0, NoTranscriptId, "ok")
            /\ UNCHANGED <<procs, now, sessions, practice_sessions, transcripts, tasks,
                           submitted, recorded>>

\* POST /transcribe with a session id: _store_transcript stores the text
\* under whatever session id the client sends
SttStoreTranscript ==
    \E session_id \in (1..uuid_counter) \cup SampleSessionIds,
       question_index \in QuestionIndices, text \in AnswerTexts :
        LET tid == transcript_id_of(session_id, question_index, now)
            files == store_transcript_files(transcripts, session_id, question_index,
                         [transcript |-> text, audio_filename |-> "a.wav"])
        IN  /\ Cardinality(DOMAIN files) <= MaxTranscripts
            /\ calls < MaxCalls
            /\ calls' = calls + 1
            /\ transcripts' = files
            /\ last' = Call("store_transcript", session_id, question_index, tid, "ok")
            /\ UNCHANGED <<procs, now, uuid_counter, sessions, practice_sessions,
                           results, tasks, submitted, recorded>>


\* ------------------------------------------------------- concurrent calls
\* Two calls of submit_interview_response running at the same time.  Nothing
\* in the service or in DataManager takes a lock, so each lookup and each
\* file write of a call is a step of its own, and the steps of the two calls
\* interleave freely.  procs[p].session holds the dict the call works on.
Proc(pc, op, session_id, question_index, transcript_id, session, outcome) ==
    [pc |-> pc, op |-> op, session_id |-> session_id,
     question_index |-> question_index, transcript_id |-> transcript_id,
     session |-> session, outcome |-> outcome]

At(p, pc, session, outcome) ==
    [procs EXCEPT ![p] = [@ EXCEPT !.pc = pc, !.session = session,
                                   !.outcome = outcome]]

Raise(p, outcome) == At(p, "done", procs[p].session, outcome)

\* line 125-127: the call starts, looks the session up and raises without one
SubmitBegin ==
    \E p \in Procs, session_id \in KnownIds, question_index \in QuestionIndices,
       transcript_id \in (DOMAIN transcripts) \cup {NoTranscriptId} :
        LET session == get_session(session_id)
        IN  /\ procs[p].pc = "idle"
            /\ calls < MaxCalls
            /\ calls' = calls + 1
            /\ submitted' = [submitted EXCEPT ![session_id] = @ \cup {question_index}]
            /\ procs' = [procs EXCEPT ![p] =
                   Proc(IF Truthy(session) THEN "transcript" ELSE "done",
                        "submit_interview_response", session_id, question_index,
                        transcript_id, session,
                        IF Truthy(session) THEN "running"
                        ELSE "ValueError: session not found")]
            /\ UNCHANGED <<now, uuid_counter, sessions, practice_sessions,
                           transcripts, results, tasks, last, recorded>>

\* line 131-143: a skipped answer gets its transcript stored, then the
\* transcript is looked up
SubmitTranscript ==
    \E p \in Procs :
        LET c == procs[p]
            skip == c.transcript_id = NoTranscriptId
            transcript_id == IF skip
                             THEN transcript_id_of(c.session_id, c.question_index, now)
                             ELSE c.transcript_id
            files_t == IF skip
                       THEN store_transcript_files(transcripts, c.session_id,
                                c.question_index,
                                [transcript |-> SKIPPED_TEXT,
                                 audio_filename |-> "skipped", submitted_at |-> now])
                       ELSE transcripts
        IN  /\ c.pc = "transcript"
            /\ Cardinality(DOMAIN files_t) <= MaxTranscripts
            /\ transcripts' = files_t
            /\ procs' = [procs EXCEPT ![p] =
                   [c EXCEPT !.transcript_id = transcript_id,
                             !.pc = IF transcript_not_found(
                                         get_transcript(files_t, transcript_id))
                                    THEN "done" ELSE "add_session_response",
                             !.outcome = IF transcript_not_found(
                                              get_transcript(files_t, transcript_id))
                                         THEN "ValueError: transcript not found"
                                         ELSE "running"]]
            /\ UNCHANGED <<now, uuid_counter, sessions, practice_sessions,
                           results, tasks, last, submitted, recorded, calls>>

\* add_session_response, line 479-521: the lookup and the new response list,
\* built in the call's own copy of the session
AddSessionResponseRead ==
    \E p \in Procs :
        LET c == procs[p]
            session == get_session(c.session_id)
            responses == DictGet(session, "responses", <<>>)
            pos == existing_index(responses, c.question_index)
            response_data == [question_index |-> c.question_index,
                              transcript_id |-> c.transcript_id,
                              submitted_at |-> now]
            new_responses == IF pos # 0
                             THEN [responses EXCEPT ![pos] = response_data]
                             ELSE Append(responses, response_data)
        IN  /\ c.pc = "add_session_response"
            /\ procs' = IF ~Truthy(session)
                        THEN Raise(p, "ValueError: failed to add response")
                        ELSE At(p, "update_session",
                                DictUpdate(session, [responses |-> new_responses]),
                                "running")
            /\ UNCHANGED <<now, uuid_counter, sessions, practice_sessions,
                           transcripts, results, tasks, last, submitted,
                           recorded, calls>>

\* update_session, line 378-383: the session is looked up again and the
\* call's copy is merged into what the lookup returned
UpdateSessionRead ==
    \E p \in Procs :
        LET c == procs[p]
            session == get_session(c.session_id)
        IN  /\ c.pc = "update_session"
            /\ procs' = IF ~Truthy(session)
                        THEN Raise(p, "ValueError: failed to add response")
                        ELSE At(p, "write_session",
                                DictUpdate(DictUpdate(session, c.session),
                                           [updated_at |-> now]),
                                "running")
            /\ UNCHANGED <<now, uuid_counter, sessions, practice_sessions,
                           transcripts, results, tasks, last, submitted,
                           recorded, calls>>

\* update_session, line 385-389: the merged dict replaces the session file,
\* and add_session_response returns True
UpdateSessionWrite ==
    \E p \in Procs :
        LET c == procs[p]
        IN  /\ c.pc = "write_session"
            /\ sessions' = WriteFile(sessions, c.session_id, c.session)
            /\ recorded' = [recorded EXCEPT ![c.session_id][c.question_index] =
                                c.transcript_id]
            /\ procs' = At(p, "progress", c.session, "added")
            /\ UNCHANGED <<now, uuid_counter, practice_sessions, transcripts,
                           results, tasks, last, submitted, calls>>

\* line 151-168: the session is looked up once more and its progress is
\* written with a second update_session
SubmitProgress ==
    \E p \in Procs :
        LET c == procs[p]
            session == get_session(c.session_id)
            current_question == c.question_index + 1
            completes == current_question >= Len(session["questions"])
            updates == IF completes
                       THEN [current_question |-> current_question,
                             status |-> "completed"]
                       ELSE [current_question |-> current_question]
        IN  /\ c.pc = "progress"
            /\ IF "questions" \notin DOMAIN session
               THEN /\ procs' = Raise(p, "KeyError: questions")
                    /\ UNCHANGED sessions
               ELSE /\ procs' = At(p, "done", session, "ok")
                    /\ sessions' = update_session(sessions, c.session_id, updates)[2]
            /\ UNCHANGED <<now, uuid_counter, practice_sessions, transcripts,
                           results, tasks, last, submitted, recorded, calls>>


\* Two evaluations running at the same time (the background task and the
\* results endpoint, or two requests).  upsert_result first asks whether the
\* session has a row and then updates or inserts on the answer it got; the
\* results table allows one row per session_id (session_id TEXT UNIQUE).
\* procs[p].session holds the record the call is about to persist.

\* evaluate_interview_session up to its call of persist_completed_session
EvaluateBegin ==
    \E p \in Procs, session_id \in KnownIds :
        \E providers \in ProviderRuns(session_id) :
            LET r == evaluate_interview_session(session_id, providers,
                                                uuid_counter + 1)
            IN  /\ procs[p].pc = "idle"
                /\ calls < MaxCalls
                /\ calls' = calls + 1
                /\ procs' = [procs EXCEPT ![p] =
                       IF r.outcome = "ok"
                       THEN Proc("upsert_select", "evaluate_interview_session",
                                 session_id, 0, NoTranscriptId, r.record, "running")
                       ELSE Proc("done", "evaluate_interview_session",
                                 session_id, 0, NoTranscriptId, None, r.outcome)]
                /\ UNCHANGED <<now, uuid_counter, sessions, practice_sessions,
                               transcripts, results, tasks, last, submitted,
                               recorded>>

\* persist_completed_session called with a session record and its scored
\* responses, up to its call of upsert_result
PersistBegin ==
    \E p \in Procs,
       session_id \in {id \in DOMAIN sessions : "questions" \in DOMAIN sessions[id]},
       score \in ScoreInputs :
        LET session == sessions[session_id]
            scored_responses ==
                [i \in 1..Len(session["questions"]) |-> ScoredResponse(i - 1, score)]
        IN  /\ procs[p].pc = "idle"
            /\ calls < MaxCalls
            /\ calls' = calls + 1
            /\ procs' = [procs EXCEPT ![p] =
                   Proc("upsert_select", "persist_completed_session", session_id,
                        0, NoTranscriptId,
                        completed_record(session_id, session, scored_responses,
                                         score),
                        "running")]
            /\ UNCHANGED <<now, uuid_counter, sessions, practice_sessions,
                           transcripts, results, tasks, last, submitted, recorded>>

\* upsert_result, line 237-238: SELECT * FROM results WHERE session_id = ?
UpsertSelect ==
    \E p \in Procs :
        LET c == procs[p]
            existing_result == \E row \in results : row.session_id = c.session_id
        IN  /\ c.pc = "upsert_select"
            /\ procs' = At(p, IF existing_result THEN "upsert_update"
                              ELSE "upsert_insert", c.session, "running")
            /\ UNCHANGED <<now, uuid_counter, sessions, practice_sessions,
                           transcripts, results, tasks, last, submitted,
                           recorded, calls>>

\* upsert_result, line 240-309: the UPDATE or the INSERT the answer chose.
\* An INSERT for a session_id that has a row by now violates the UNIQUE
\* constraint and raises sqlite3.IntegrityError.
UpsertWrite ==
    \E p \in Procs :
        LET c == procs[p]
            has_row == \E row \in results : row.session_id = c.session_id
        IN  /\ c.pc \in {"upsert_update", "upsert_insert"}
            /\ IF c.pc = "upsert_update"
               THEN /\ results' = IF has_row
                                  THEN upsert_result(results, c.session_id,
                                                     c.session, uuid_counter + 1)
                                  ELSE results
                    /\ procs' = At(p, "done", c.session, "ok")
                    /\ UNCHANGED uuid_counter
               ELSE IF has_row
               THEN /\ procs' = Raise(p, "IntegrityError: UNIQUE results.session_id")
                    /\ UNCHANGED <<results, uuid_counter>>
               ELSE /\ uuid_counter < MaxUuids
                    /\ uuid_counter' = uuid_counter + 1
                    /\ results' = upsert_result_always_insert(results, c.session_id,
                                      c.session, uuid_counter + 1)
                    /\ procs' = At(p, "done", c.session, "ok")
            /\ UNCHANGED <<now, sessions, practice_sessions, transcripts, tasks,
                           last, submitted, recorded, calls>>

\* ------------------------------------------------ question source on its own
\* literal lists a client sends: padded and empty strings, blanks only, dicts
\* with the text under question, text, content or no known key, and no entry
LiteralLists ==
    {<<>>,
     <<StrItem(" Q1 "), StrItem(""), StrItem("Q2")>>,
     <<StrItem("   "), StrItem("")>>,
     <<DictItem([question |-> " Q3 "]), DictItem([content |-> "Q4"]),
       DictItem([title |-> "Q5"]), StrItem("Q1")>>,
     <<DictItem([question |-> "", text |-> "Q4"])>>}

QuestionsInputs ==
    {[supplied |-> FALSE, items |-> <<>>]}
    \cup {[supplied |-> TRUE, items |-> items] : items \in LiteralLists}

\* requested counts: not positive, small, past the templates, at and past 20
NumQuestionsInputs == {-1, 0} \cup (1..MaxQuestions) \cup {13, 20, 21}

StartRequests ==
    {[candidate_name |-> "Candidate", job_role |-> job_role,
      job_description |-> job_description, num_questions |-> num_questions,
      questions |-> questions] :
        job_role \in {Null, "Backend Engineer"},
        job_description \in {Null, "Python services on Kubernetes"},
        num_questions \in NumQuestionsInputs,
        questions \in QuestionsInputs}

\* requests of POST /generate
GenerateRequests ==
    {[has_prompt |-> has_prompt, prompt |-> question_prompt(job_role),
      job_role |-> job_role, job_description |-> job_description,
      num_questions |-> num_questions] :
        has_prompt \in BOOLEAN,
        job_role \in {Null, "Backend Engineer", "QA"},
        job_description \in {Null, "Python services on Kubernetes"},
        num_questions \in NumQuestionsInputs}

\* the calls the checks of the question source start from
StartCalls ==
    {DictUpdate(Call("start_interview_session", 0, 0, NoTranscriptId, "called"),
                [request |-> request, provider |-> provider]) :
        request \in StartRequests, provider \in QuestionProviderOutcomes}

BuildCalls ==
    {DictUpdate(Call("build_questions_payload", 0, 0, NoTranscriptId, "called"),
                [request |-> request, provider |-> provider]) :
        request \in GenerateRequests, provider \in QuestionProviderOutcomes}

InitQuestions ==
    /\ now = 0
    /\ uuid_counter = 0
    /\ sessions = <<>>
    /\ practice_sessions = <<>>
    /\ transcripts = <<>>
    /\ results = {}
    /\ tasks = <<>>
    /\ last \in StartCalls \cup BuildCalls
    /\ submitted = [u \in Uuids |-> {}]
    /\ recorded = [u \in Uuids |-> [i \in QuestionIndices |-> NoTranscriptId]]
    /\ calls = 0
    /\ procs = [p \in Procs |-> IdleProc]

\* start_interview_session on the request of the call
StartInterviewSessionRequest ==
    /\ last.op = "start_interview_session"
    /\ last.outcome = "called"
    /\ StartWith(last.request, last.provider)

\* build_questions_payload on the request of the call; it touches no store
BuildQuestionsPayload ==
    /\ last.op = "build_questions_payload"
    /\ last.outcome = "called"
    /\ LET payload == build_questions_payload(last.request, last.provider)
       IN  last' = DictUpdate(last, [outcome |-> payload.outcome,
                                     returned |-> payload])
    /\ UNCHANGED <<procs, now, uuid_counter, sessions, practice_sessions,
                   transcripts, results, tasks, submitted, recorded, calls>>

NextQuestions ==
    \/ StartInterviewSessionRequest
    \/ BuildQuestionsPayload

SpecQuestions == InitQuestions /\ [][NextQuestions]_vars

\* ---------------------------------------------------- scoring on its own
\* answer texts handed to the evaluator: spoken answers, the empty string,
\* the skip sentinel and the SKIPPED marker
ScoredTexts == AnswerTexts \cup {"", SKIPPED_TEXT, "SKIPPED"}

\* the calls of the scoring functions that the checks below start from;
\* the functions touch no store, so a call is its arguments and its result
EvaluateCalls ==
    {DictUpdate(Call("evaluate_response_with_ai", 0, question_index,
                     NoTranscriptId, "called"),
                [transcript |-> text, provider |-> provider]) :
        question_index \in QuestionIndices, text \in ScoredTexts,
        provider \in ProviderOutcomes}

\* the answers of one session: nothing said, or an answer of a few words
SessionTexts == {"", "I would profile the service first"}

ScoreCalls ==
    UNION {{DictUpdate(Call("score_responses", 0, 0, NoTranscriptId, "called"),
                       [transcripts |-> texts, providers |-> providers]) :
               texts \in [1..n -> SessionTexts],
               providers \in [1..n -> ProviderOutcomes]} : n \in 0..MaxQuestions}

InitScoring ==
    /\ now = 0
    /\ uuid_counter = 0
    /\ sessions = <<>>
    /\ practice_sessions = <<>>
    /\ transcripts = <<>>
    /\ results = {}
    /\ tasks = <<>>
    /\ last \in EvaluateCalls \cup ScoreCalls
    /\ submitted = [u \in Uuids |-> {}]
    /\ recorded = [u \in Uuids |-> [i \in QuestionIndices |-> NoTranscriptId]]
    /\ calls = 0
    /\ procs = [p \in Procs |-> IdleProc]

\* evaluate_response_with_ai for one answer
EvaluateResponseWithAi ==
    /\ last.op = "evaluate_response_with_ai"
    /\ last.outcome = "called"
    /\ last' = DictUpdate(last,
                   [outcome |-> "ok",
                    returned |-> evaluate_response_with_ai(
                                     QuestionBank[last.question_index + 1],
                                     last.transcript, last.provider)])
    /\ UNCHANGED <<procs, now, uuid_counter, sessions, practice_sessions,
                   transcripts, results, tasks, submitted, recorded, calls>>

RECURSIVE SumScores(_)
SumScores(scores) ==
    IF scores = <<>> THEN 0 ELSE Head(scores) + SumScores(Tail(scores))

\* "total_score / len(scored_responses) if scored_responses else 0", to a tenth
average_score_of(scores) ==
    IF Len(scores) > 0 THEN RoundDiv(SumScores(scores), Len(scores)) ELSE 0

\* the scoring loop of evaluate_interview_session over a list of answers
score_responses(texts, providers) ==
    LET scores == [i \in 1..Len(texts) |->
                      evaluate_response_with_ai(
                          IF i <= Len(QuestionBank) THEN QuestionBank[i]
                          ELSE "Unknown question",
                          texts[i], providers[i]).score]
    IN  [scores |-> scores, average_score |-> average_score_of(scores)]

ScoreResponses ==
    /\ last.op = "score_responses"
    /\ last.outcome = "called"
    /\ last' = DictUpdate(last,
                   [outcome |-> "ok",
                    returned |-> score_responses(last.transcripts, last.providers)])
    /\ UNCHANGED <<procs, now, uuid_counter, sessions, practice_sessions,
                   transcripts, results, tasks, submitted, recorded, calls>>

NextScoring ==
    \/ EvaluateResponseWithAi
    \/ ScoreResponses

SpecScoring == InitScoring /\ [][NextScoring]_vars

Next ==
    \/ Tick
    \/ StartInterviewSession
    \/ CreatePracticeSession
    \/ StoreTranscript
    \/ AddSessionResponse
    \/ UpdateSession
    \/ SubmitResponse
    \/ EvaluateInterviewSession
    \/ PersistCompletedSession
    \/ UpdateAdminResult

Spec == Init /\ [][Next]_vars

\* the operations that read or write the results table
NextResults ==
    \/ Tick
    \/ StartInterviewSession
    \/ CreatePracticeSession
    \/ EvaluateInterviewSession
    \/ PersistCompletedSession
    \/ UpdateAdminResult

SpecResults == Init /\ [][NextResults]_vars

\* the submit path on its own: sessions of both kinds and the service call,
\* whose transcripts are the ones it stores itself for skipped questions
NextSubmit ==
    \/ Tick
    \/ StartInterviewSession
    \/ CreatePracticeSession
    \/ SubmitResponse

SpecSubmit == Init /\ [][NextSubmit]_vars

\* the evaluator on its own: sessions of both kinds, transcripts and recorded
\* responses, and the two functions that write the results table
NextEvaluate ==
    \/ StartInterviewSession
    \/ CreatePracticeSession
    \/ StoreTranscript
    \/ AddSessionResponse
    \/ EvaluateInterviewSession
    \/ PersistCompletedSession

SpecEvaluate == Init /\ [][NextEvaluate]_vars

\* deletion on its own: results of sessions and of the sample script,
\* transcripts stored by the speech route, and the admin's delete
NextDelete ==
    \/ Tick
    \/ StartInterviewSession
    \/ PersistCompletedSession
    \/ UpsertSampleResult
    \/ SttStoreTranscript
    \/ DeleteResult

SpecDelete == Init /\ [][NextDelete]_vars

\* concurrent submissions: sessions, stored transcripts and two calls in steps
NextConcurrent ==
    \/ Tick
    \/ StartInterviewSession
    \/ CreatePracticeSession
    \/ StoreTranscript
    \/ SubmitBegin
    \/ SubmitTranscript
    \/ AddSessionResponseRead
    \/ UpdateSessionRead
    \/ UpdateSessionWrite
    \/ SubmitProgress

SpecConcurrent == Init /\ [][NextConcurrent]_vars

\* concurrent evaluations: answered sessions and two calls in steps
NextConcurrentEvaluate ==
    \/ StartInterviewSession
    \/ CreatePracticeSession
    \/ SubmitResponse
    \/ EvaluateBegin
    \/ PersistBegin
    \/ UpsertSelect
    \/ UpsertWrite

SpecConcurrentEvaluate == Init /\ [][NextConcurrentEvaluate]_vars

\* ------------------------------------------------------------ claim helpers
\* session files written by create_session (uuid4 ids: never a practice row's id)
InterviewSessions == (DOMAIN sessions) \ (DOMAIN practice_sessions)

MaxOf(S) == CHOOSE x \in S : \A y \in S : y <= x

\* question indices with an entry in a session file's response list
RecordedIndices(session) ==
    LET responses == DictGet(session, "responses", <<>>)
    IN  {responses[i].question_index : i \in 1..Len(responses)}

EntriesFor(session, question_index) ==
    LET responses == DictGet(session, "responses", <<>>)
    IN  {i \in 1..Len(responses) : responses[i].question_index = question_index}

AllSubmitted(s) ==
    \A i \in 0..(Len(sessions[s]["questions"]) - 1) : i \in submitted[s]

RowsOf(rows, session_id) == {row \in rows : row.session_id = session_id}

\* C1: after submit_interview_response calls on a session, its current_question
\* is 1 + the largest question index submitted so far.
C1_ProgressIsOnePlusMaxSubmitted ==
    \A s \in InterviewSessions :
        submitted[s] # {} =>
            sessions[s]["current_question"] = 1 + MaxOf(submitted[s])

C3_OneEntryPerIndexLatestTranscript ==
    \A s \in Uuids : \A i \in QuestionIndices :
        recorded[s][i] # NoTranscriptId =>
            /\ s \in DOMAIN sessions
            /\ Cardinality(EntriesFor(sessions[s], i)) = 1
            /\ \A n \in EntriesFor(sessions[s], i) :
                   sessions[s]["responses"][n].transcript_id = recorded[s][i]

C5_NotReadyErrorWhenNotCompleted ==
    (/\ last.op = "evaluate_interview_session"
     /\ last.session_id \in InterviewSessions
     /\ sessions[last.session_id]["status"] # "completed")
        => last.outcome = "ValueError: not yet completed"

\* C6: in every stored session, current_question equals the number of distinct
\* question indices with a recorded response.
C6_ProgressCountsRecordedIndices ==
    \A s \in DOMAIN sessions :
        LET n == Cardinality(RecordedIndices(sessions[s]))
        IN  IF "current_question" \in DOMAIN sessions[s]
            THEN sessions[s]["current_question"] = n
            ELSE n = 0

C8_ExistingStatusPreserved ==
    [][ (last'.op = "persist_completed_session" /\ calls' = calls + 1) =>
            \A old \in RowsOf(results, last'.session_id) :
                \A new \in RowsOf(results', last'.session_id) :
                    new.status = old.status
      ]_vars

\* C9: every store_transcript call returns an id that no stored transcript has.
C9_TranscriptIdsAreFresh ==
    [][ (last'.op = "store_transcript" /\ calls' = calls + 1) =>
            last'.transcript_id \notin DOMAIN transcripts
      ]_vars

\* C10: add_session_response on a session made by create_session succeeds, and
\* get_session then returns the session with exactly one entry for the index,
\* referencing the transcript.
C10_AddThenGetRoundTrip ==
    (/\ last.op = "add_session_response"
     /\ last.session_id \in InterviewSessions)
        => /\ last.outcome = "True"
           /\ Truthy(get_session(last.session_id))
           /\ LET session == get_session(last.session_id)
                  entries == EntriesFor(session, last.question_index)
              IN  /\ Cardinality(entries) = 1
                  /\ \A n \in entries :
                         session["responses"][n].transcript_id = last.transcript_id

\* C11: update_session on an existing session stores the given fields, changes
\* nothing else but updated_at (responses and questions stay), and reports
\* success; on an unknown id it reports failure and writes no record.
C11_UpdateChangesOnlyGivenFields ==
    [][ (last'.op = "update_session" /\ calls' = calls + 1) =>
            LET s == last'.session_id
            IN  IF s \in DOMAIN sessions
                THEN /\ last'.outcome = "True"
                     /\ \A k \in DOMAIN metadata :
                            /\ k \in DOMAIN sessions'[s]
                            /\ sessions'[s][k] = metadata[k]
                     /\ \A k \in (DOMAIN sessions[s]) \ ((DOMAIN metadata) \cup {"updated_at"}) :
                            /\ k \in DOMAIN sessions'[s]
                            /\ sessions'[s][k] = sessions[s][k]
                ELSE /\ last'.outcome = "False"
                     /\ sessions' = sessions
      ]_vars

\* C13: submit_interview_response with a transcript id that is not in the
\* transcript store fails with a not-found error (the transcript's, when the
\* session lookup succeeded) and leaves the stored sessions unchanged.
C13_UnknownTranscriptRejected ==
    [][ (/\ last'.op = "submit_interview_response"
         /\ calls' = calls + 1
         /\ last'.given_transcript_id # NoTranscriptId
         /\ last'.given_transcript_id \notin DOMAIN transcripts) =>
            /\ last'.outcome \in {"ValueError: transcript not found",
                                  "ValueError: session not found"}
            /\ Truthy(get_session(last'.session_id)) =>
                   last'.outcome = "ValueError: transcript not found"
            /\ sessions' = sessions
      ]_vars

\* C13 witness: a submit with an unknown transcript id on a session that the
\* session lookup finds, rejected by the transcript check
C13_Witness ==
    /\ last.op = "submit_interview_response"
    /\ last.given_transcript_id = UnknownTranscriptId
    /\ Truthy(get_session(last.session_id))
    /\ last.outcome = "ValueError: transcript not found"

\* C14: submit_interview_response without a transcript id creates a transcript
\* for that session and index with the skipped text and records it as the
\* response for that index.
C14_SkipCreatesAndRecordsTranscript ==
    (/\ last.op = "submit_interview_response"
     /\ last.given_transcript_id = NoTranscriptId
     /\ last.session_id \in InterviewSessions)
        => \E tid \in DOMAIN transcripts :
               /\ transcripts[tid].transcript = SKIPPED_TEXT
               /\ transcripts[tid].session_id = last.session_id
               /\ transcripts[tid].question_index = last.question_index
               /\ \E n \in EntriesFor(sessions[last.session_id], last.question_index) :
                      sessions[last.session_id]["responses"][n].transcript_id = tid

C17_ScoresWithinBounds ==
    /\ (last.op = "evaluate_response_with_ai" /\ last.outcome = "ok") =>
           last.returned.score \in 10..100
    /\ (last.op = "score_responses" /\ last.outcome = "ok") =>
           LET scores == last.returned.scores
               average_score == last.returned.average_score
           IN  /\ \A i \in 1..Len(scores) : scores[i] \in 10..100
               /\ (average_score = 0) <=> (Len(scores) = 0)
               /\ average_score \in {0} \cup (10..100)

\* C17 witness: the empty answer scored by a provider whose Score line is
\* above the scale, clamped to 10
C17_Witness ==
    /\ last.op = "evaluate_response_with_ai"
    /\ last.outcome = "ok"
    /\ last.transcript = ""
    /\ last.provider.kind = "ok"
    /\ last.provider.score_line = "number"
    /\ last.provider.value = 150
    /\ last.returned.score = 100

\* -------------------------------------------- claim helpers, question source
ProviderFails(provider) == provider.kind \in {"unavailable", "exception", "status"}

StartReturned ==
    /\ last.op = "start_interview_session"
    /\ "request" \in DOMAIN last
    /\ last.outcome # "called"

\* the text an entry of a literal list carries, "" when it carries none
EntryText(item) ==
    IF item.kind = "str" THEN item.value
    ELSE IF TextTruthy(DictGet(item.value, "question", Null)) THEN item.value["question"]
    ELSE IF TextTruthy(DictGet(item.value, "text", Null)) THEN item.value["text"]
    ELSE IF TextTruthy(DictGet(item.value, "content", Null)) THEN item.value["content"]
    ELSE ""

\* stored is the trimmed non-empty entry texts of items, in their order
IsCleanedListOf(stored, items) ==
    /\ \A k \in 1..Len(stored) : stored[k] # "" /\ Strip(stored[k]) = stored[k]
    /\ \E f \in [1..Len(stored) -> 1..Len(items)] :
           /\ \A j, k \in 1..Len(stored) : j < k => f[j] < f[k]
           /\ \A k \in 1..Len(stored) : stored[k] = Strip(EntryText(items[f[k]]))
           /\ \A i \in 1..Len(items) :
                  (\A k \in 1..Len(stored) : f[k] # i) =>
                      Strip(EntryText(items[i])) = ""

\* the call used the literal list and nothing else, or failed on an empty one
LiteralListHandled ==
    IF last.outcome = "ok"
    THEN LET session == sessions[last.session_id]
         IN  /\ session["question_source"] = "client"
             /\ session["used_fallback"] = FALSE
             /\ IsCleanedListOf(session["questions"], last.request.questions.items)
    ELSE /\ last.outcome = "ValueError: Provided questions were empty after cleaning"
         /\ sessions = <<>>
         /\ \A i \in 1..Len(last.request.questions.items) :
                Strip(EntryText(last.request.questions.items[i])) = ""

FallbackSessionWith(n) ==
    /\ last.outcome = "ok"
    /\ LET session == sessions[last.session_id]
       IN  /\ Len(session["questions"]) = n
           /\ session["question_source"] = "fallback"
           /\ session["used_fallback"] = TRUE

FallbackCase ==
    /\ StartReturned
    /\ ProviderFails(last.provider)
    /\ ~last.request.questions.supplied
    /\ (TextTruthy(last.request.job_role) \/ TextTruthy(last.request.job_description))
    /\ last.request.num_questions > 0

UsableQuestions(provider) ==
    IF provider.format = "json"
    THEN Cardinality({i \in 1..Len(provider.items) : provider.items[i] # "no text"})
    ELSE IF provider.format = "text" THEN provider.lines
    ELSE 0

\* C15: with the provider failing, start_interview_session given a role or a
\* description and no literal list stores exactly n fallback questions, for
\* every requested count n > 0.
C15_FallbackReturnsExactlyN ==
    FallbackCase => FallbackSessionWith(last.request.num_questions)

\* C15 as the code has it: exactly n fallback questions for 0 < n <= 20, and
\* 20 of them for every larger count.
C15_FallbackReturnsNUpToTwenty ==
    FallbackCase => FallbackSessionWith(Min(last.request.num_questions, 20))

\* C15 witness: thirteen questions asked for, one more than there are
\* templates, with the provider unreachable
C15_Witness ==
    /\ FallbackCase
    /\ last.provider.kind = "unavailable"
    /\ last.request.num_questions = 13
    /\ FallbackSessionWith(13)

\* C18: when the provider answers with at least one but fewer than n usable
\* questions, build_questions_payload returns exactly n questions tagged as
\* fallback.
C18_TooFewUsableFallsBack ==
    (/\ last.op = "build_questions_payload"
     /\ last.outcome # "called"
     /\ last.provider.kind = "ok"
     /\ last.request.num_questions \in 1..20
     /\ TextTruthy(last.request.job_role) \/ TextTruthy(last.request.job_description)
     /\ UsableQuestions(last.provider) >= 1
     /\ UsableQuestions(last.provider) < last.request.num_questions)
        => /\ last.outcome = "ok"
           /\ Len(last.returned.questions) = last.request.num_questions
           /\ last.returned.source = "fallback"
           /\ last.returned.used_fallback = TRUE

\* C19: a request for question generation whose count is not greater than
\* zero is rejected with the input error; no count is put in its place and no
\* session is created.
C19_NonPositiveCountRejected ==
    (/\ \/ StartReturned /\ ~last.request.questions.supplied
        \/ last.op = "build_questions_payload" /\ last.outcome # "called"
     /\ last.request.num_questions <= 0)
        => /\ last.outcome \in
                  {"ValueError: Number of questions must be greater than zero",
                   "ValueError: Either messages/prompt or job_description/job_role must be provided"}
           /\ sessions = <<>>

\* C20: when a literal question list is supplied, start_interview_session
\* stores the trimmed non-empty texts in their order, from the client and
\* without fallback; when cleaning leaves none it fails with the input error
\* and creates no session.
C20_SuppliedListUsedOrRejected ==
    (StartReturned /\ last.request.questions.supplied) => LiteralListHandled

\* C20 as the code has it: the same for a literal list with at least one
\* entry; a list without entries counts as no list.
C20_NonEmptyListUsedOrRejected ==
    (/\ StartReturned
     /\ last.request.questions.supplied
     /\ last.request.questions.items # <<>>) => LiteralListHandled

\* C20 witness: a list with a padded, an empty and a plain entry, stored as
\* the two trimmed texts
C20_Witness ==
    /\ StartReturned
    /\ last.request.questions.items = <<StrItem(" Q1 "), StrItem(""), StrItem("Q2")>>
    /\ last.outcome = "ok"
    /\ sessions[last.session_id]["questions"] = <<"Q1", "Q2">>

\* C21: every question list returned by build_questions_payload, from the
\* provider as well as from the fallback, has at each position p a record
\* whose index is p and whose type is technical or behavioral.
C21_IndexIsPositionTypeKnown ==
    (last.op = "build_questions_payload" /\ last.outcome = "ok") =>
        \A p \in 1..Len(last.returned.questions) :
            /\ last.returned.questions[p].index = p - 1
            /\ last.returned.questions[p].type \in {"technical", "behavioral"}

\* C22: evaluate_interview_session, and the persist_completed_session it ends
\* with, never change session records or transcripts: questions, responses,
\* current_question, status and every stored transcript are as before.
C22_EvaluatorLeavesSessionsAndTranscripts ==
    [][ (/\ last'.op \in {"evaluate_interview_session", "persist_completed_session"}
         /\ calls' = calls + 1) =>
            /\ sessions' = sessions
            /\ practice_sessions' = practice_sessions
            /\ transcripts' = transcripts
      ]_vars

\* C22 witness: a Result written for a session that has a stored transcript
\* and whose session file is still active
C22_Witness ==
    /\ last.op = "persist_completed_session"
    /\ RowsOf(results, last.session_id) # {}
    /\ \E tid \in DOMAIN transcripts : transcripts[tid].session_id = last.session_id
    /\ sessions[last.session_id]["status"] = "active"

\* C23: delete_result for a session id that has a Result removes the Result,
\* the session record and every transcript stored for that session; none of
\* the three can be looked up afterwards.
C23_DeleteResultCascades ==
    (last.op = "delete_result" /\ last.outcome = "True") =>
        /\ RowsOf(results, last.session_id) = {}
        /\ last.session_id \notin DOMAIN sessions
        /\ ~Truthy(get_session(last.session_id))
        /\ \A tid \in DOMAIN transcripts :
               transcripts[tid].session_id # last.session_id

\* -------------------------------------------- claim helpers, concurrent calls
\* both calls were submissions for session s, and both have ended
BothSubmitted(s) ==
    \A p \in Procs :
        /\ procs[p].op = "submit_interview_response"
        /\ procs[p].pc = "done"
        /\ procs[p].session_id = s

\* C24: when two submit_interview_response calls for the same question index
\* of one session interleave, the session ends with exactly one response
\* entry for that index, and it references the transcript of one of the calls.
C24_OneEntrySurvivesConcurrentResubmission ==
    \A s \in InterviewSessions, i \in QuestionIndices :
        (BothSubmitted(s) /\ \A p \in Procs : procs[p].question_index = i)
            => /\ Cardinality(EntriesFor(sessions[s], i)) = 1
               /\ \A n \in EntriesFor(sessions[s], i) :
                      sessions[s]["responses"][n].transcript_id \in
                          {procs[p].transcript_id : p \in Procs}

\* add_session_response returned True to the call: the response was acknowledged
Acknowledged(p) ==
    \/ procs[p].pc = "progress"
    \/ procs[p].pc = "done" /\ procs[p].outcome \in {"ok", "KeyError: questions"}

\* C27: when two calls for different question indices of one session
\* interleave and both responses were acknowledged, both indices are in the
\* session's response list.
C27_NoAcknowledgedResponseLost ==
    \A s \in DOMAIN sessions :
        (/\ \A p \in Procs : procs[p].session_id = s /\ Acknowledged(p)
         /\ procs[1].question_index # procs[2].question_index)
            => {procs[p].question_index : p \in Procs} \subseteq
                   RecordedIndices(sessions[s])

\* both calls were evaluations of session s, and both have ended
BothEvaluated(s) ==
    \A p \in Procs :
        /\ procs[p].op = "evaluate_interview_session"
        /\ procs[p].pc = "done"
        /\ procs[p].session_id = s

IndicesOf(entries) == [n \in 1..Len(entries) |-> entries[n].question_index]

\* the transcript text linked for index i in a session file
LinkedText(session, i) ==
    LET n == CHOOSE k \in EntriesFor(session, i) : TRUE
    IN  get_transcript(transcripts, session["responses"][n].transcript_id).transcript

QuestionsOf(session) == DictGet(session, "questions", <<>>)

\* C28: in every session record, every recorded response has a question_index
\* within 0..len(questions)-1 and current_question is at most len(questions).
C28_RecordedIndicesWithinQuestions ==
    \A s \in DOMAIN sessions :
        /\ RecordedIndices(sessions[s]) \subseteq 0..(Len(QuestionsOf(sessions[s])) - 1)
        /\ DictGet(sessions[s], "current_question", 0) <= Len(QuestionsOf(sessions[s]))

\* C29: every response entry recorded in session s at question index i
\* references a transcript that was stored for session s and question index i.
C29_ResponsesReferenceOwnTranscripts ==
    \A s \in DOMAIN sessions :
        LET responses == DictGet(sessions[s], "responses", <<>>)
        IN  \A n \in 1..Len(responses) :
                /\ responses[n].transcript_id \in DOMAIN transcripts
                /\ transcripts[responses[n].transcript_id].session_id = s
                /\ transcripts[responses[n].transcript_id].question_index =
                       responses[n].question_index

====
